---- MODULE Spec2Model ----
(***************************************************************************)
(* A model of s3-client: the address parser (parseAsObject), the command   *)
(* dispatcher (run) and the storage client facade (Client).                *)
(*                                                                         *)
(* A Go string is a sequence of one-character strings, so that prefixes,   *)
(* splits and concatenations are computed and not assumed.  A Go pointer   *)
(* is a sequence of length at most one: <<>> is nil, <<v>> points to v.    *)
(* An error is a string, "nil" when there is none.                         *)
(***************************************************************************)
EXTENDS Naturals, Sequences, FiniteSets, TLC

VARIABLES
    pc,            \* position of the operation under way
    err,           \* the error the operation returned
    calls,         \* requests handed to the storage and identity services
    arg, needKey,  \* parseAsObject: its inputs
    parsed,        \* parseAsObject: its result
    cmd, args,     \* run: the subcommand and its arguments
    fs, fs0,       \* the local file system, now and when run started
    body,          \* the bytes of the remote object a fetch would stream
    reader,        \* the part of the body the open stream still holds
    localFile,     \* get: the destination path
    obj,           \* the (bucket, key) the command resolved
    events,        \* local operations performed, in order
    deferred,      \* run: the stack of deferred calls
    stdout,        \* bytes written to standard output
    objs, idx,     \* DeleteObjects: the batch and the loop position
    deleteObjects  \* DeleteObjects: identifiers collected so far

vars == <<pc, err, calls, arg, needKey, parsed, cmd, args, fs, fs0, body,
          reader, localFile, obj, events, deferred, stdout, objs, idx,
          deleteObjects>>

parseVars == <<arg, needKey, parsed>>
runVars == <<cmd, args, fs, fs0, body, reader, localFile, obj, events,
             deferred, stdout>>
delVars == <<objs, idx, deleteObjects>>

(***************************************************************************)
(* Bounds.                                                                 *)
(***************************************************************************)
MaxLen == 4
MaxArgs == 4
MaxBody == 2
MaxBatch == 3

(***************************************************************************)
(* Strings.                                                                *)
(***************************************************************************)
Nil == <<>>
NoErr == "nil"

Alphabet == {"a", "/", ":", "?", "3"}
Digits == {"0", "1", "2", "3", "4", "5", "6", "7", "8", "9"}

Strs(n) == UNION {[1..k -> Alphabet] : k \in 0..n}

S3Prefix == <<"s", "3", ":", "/", "/">>

HasPrefix(s, p) == Len(s) >= Len(p) /\ SubSeq(s, 1, Len(p)) = p

\* strings.Index for a one-character separator, 1-based; 0 when absent
Index(s, c) ==
    IF \E i \in 1..Len(s) : s[i] = c
    THEN CHOOSE i \in 1..Len(s) : s[i] = c /\ \A j \in 1..(i - 1) : s[j] # c
    ELSE 0

LastIndex(s, c) ==
    IF \E i \in 1..Len(s) : s[i] = c
    THEN CHOOSE i \in 1..Len(s) : s[i] = c /\ \A j \in (i + 1)..Len(s) : s[j] # c
    ELSE 0

From(s, i) == SubSeq(s, i, Len(s))

SplitNLast(s) ==
    LET i == LastIndex(s, "/") IN
    IF i = 0 THEN <<s>> ELSE <<SubSeq(s, 1, i - 1), From(s, i + 1)>>

\* strings.SplitN(arg, "/", 2)
SplitN(s) ==
    LET i == Index(s, "/") IN
    IF i = 0 THEN <<s>> ELSE <<SubSeq(s, 1, i - 1), From(s, i + 1)>>

ReplaceAll(s) == [i \in 1..Len(s) |-> IF s[i] = "/" THEN "_" ELSE s[i]]

(***************************************************************************)
(* net/url.Parse, for a raw URL that starts with a scheme followed by      *)
(* "//" and is written in Alphabet: the query is cut at the first "?",     *)
(* the authority runs to the next "/", what follows is the path.  The      *)
(* host keeps its port, which must be empty or decimal.                    *)
(***************************************************************************)
validOptionalPort(port) ==
    \/ port = <<>>
    \/ /\ port[1] = ":"
       /\ \A i \in 2..Len(port) : port[i] \in Digits

\* strings.Cut(s, c): the parts before and after the first c
Before(s, c) == SubSeq(s, 1, Index(s \o <<c>>, c) - 1)
After(s, c) == From(s, Index(s \o <<c>>, c) + 1)

\* parseHost: a port, when there is one, follows the last colon
parseHost(host) ==
    IF LastIndex(host, ":") = 0
       \/ validOptionalPort(From(host, LastIndex(host, ":")))
    THEN NoErr
    ELSE "invalid port after host"

URL(e, host, path) ==
    IF e = NoErr THEN [err |-> NoErr, Host |-> host, Path |-> path]
    ELSE [err |-> e, Host |-> <<>>, Path |-> <<>>]

\* the authority runs to the first "/", the path starts there
parseAuthority(hier) ==
    URL(parseHost(Before(hier, "/")), Before(hier, "/"),
        From(hier, Len(Before(hier, "/")) + 1))

\* the scheme ends at the first ":", the query starts at the first "?",
\* and the "//" that follows the scheme introduces the authority
urlParse(raw) == parseAuthority(From(Before(After(raw, ":"), "?"), 3))

(***************************************************************************)
(* parseAsObject                                                           *)
(***************************************************************************)
ParseResult(b, k, e) == [bucket |-> b, key |-> k, err |-> e]

\* the s3:// form, from the parsed URL
parseS3(u, nk) ==
    IF u.err # NoErr THEN ParseResult(<<>>, <<>>, u.err)
    ELSE IF (u.Path = <<"/">> \/ u.Path = <<>>) /\ nk
    THEN ParseResult(<<>>, <<>>, "need key")
    ELSE ParseResult(u.Host, IF u.Path = <<"/">> THEN <<>> ELSE u.Path, NoErr)

\* the bucket/key form, from the parts of the split
parseParts(parts, nk) ==
    IF Len(parts) = 1
    THEN IF nk THEN ParseResult(<<>>, <<>>, "need key")
         ELSE ParseResult(parts[1], <<>>, NoErr)
    ELSE ParseResult(parts[1], parts[2], NoErr)

parseAsObject(a, nk) ==
    IF HasPrefix(a, S3Prefix) THEN parseS3(urlParse(a), nk)
    ELSE parseParts(SplitN(a), nk)

NoParse == ParseResult(<<>>, <<>>, NoErr)

\* the fixed values of the variables an operation does not use
IdleParse == arg = <<>> /\ needKey = FALSE /\ parsed = NoParse
NoFS == [p \in {} |-> [dir |-> FALSE, data |-> <<>>]]

IdleRun ==
    /\ cmd = "" /\ args = <<>> /\ fs = NoFS /\ fs0 = NoFS /\ body = <<>>
    /\ reader = <<>> /\ localFile = <<>> /\ obj = NoParse /\ events = <<>>
    /\ deferred = <<>> /\ stdout = <<>>
IdleDel == objs = <<>> /\ idx = 0 /\ deleteObjects = <<>>

ParseInputs == Strs(MaxLen) \cup {S3Prefix \o r : r \in Strs(MaxLen)}

InitParse ==
    /\ pc = "parse" /\ err = NoErr /\ calls = <<>>
    /\ arg \in ParseInputs /\ needKey \in BOOLEAN /\ parsed = NoParse
    /\ IdleRun /\ IdleDel

Parse ==
    /\ pc = "parse"
    /\ parsed' = parseAsObject(arg, needKey)
    /\ err' = parsed'.err
    /\ pc' = "done"
    /\ UNCHANGED <<calls, arg, needKey, runVars, delVars>>

NextParse == Parse

SpecParse == InitParse /\ [][NextParse]_vars

(***************************************************************************)
(* Properties of parseAsObject, under SpecParse.                           *)
(***************************************************************************)
Chars(s) == {s[i] : i \in 1..Len(s)}

TrimLeadingSlash(p) == IF p # <<>> /\ p[1] = "/" THEN Tail(p) ELSE p

\* C1: for an s3:// address that parses, the bucket is the URI host and the
\* key is the URI path with its leading slash stripped (s3://a/a gives key a).
C1_S3KeyIsPathWithoutLeadingSlash ==
    (/\ pc = "done" /\ HasPrefix(arg, S3Prefix) /\ parsed.err = NoErr
     /\ urlParse(arg).Host # <<>>
     /\ Len(urlParse(arg).Path) >= 2 /\ urlParse(arg).Path[2] # "/")
        => /\ parsed.bucket = urlParse(arg).Host
           /\ parsed.key = TrimLeadingSlash(urlParse(arg).Path)

\* C2: with needKey true, parseAsObject never returns a bucket with an empty
\* key: it returns an error instead, for every address form (bucket/ too).
C2_NeedKeyNeverEmptyKey ==
    (pc = "done" /\ needKey /\ parsed.err = NoErr /\ parsed.bucket # <<>>)
        => parsed.key # <<>>

\* C3: an address without the s3:// prefix that contains a slash is split on
\* its first slash only: arg = bucket/key, with no slash in bucket.
C3_SplitOnFirstSlashOnly ==
    (pc = "done" /\ ~HasPrefix(arg, S3Prefix) /\ "/" \in Chars(arg))
        => /\ parsed.err = NoErr
           /\ arg = parsed.bucket \o <<"/">> \o parsed.key
           /\ "/" \notin Chars(parsed.bucket)

C3_Witness ==
    /\ pc = "done" /\ ~HasPrefix(arg, S3Prefix)
    /\ parsed.bucket # <<>> /\ "/" \in Chars(parsed.key)
    /\ parsed.key[1] # "/"

(***************************************************************************)
(* The local file system: a function from the paths that exist to what is  *)
(* there.  A path is resolved in the working directory.                    *)
(***************************************************************************)
File(data) == [dir |-> FALSE, data |-> data]
Dir == [dir |-> TRUE, data |-> <<>>]

Exists(f, p) == p \in DOMAIN f
IsDir(f, p) == Exists(f, p) /\ f[p].dir
IsFile(f, p) == Exists(f, p) /\ ~f[p].dir

Parent(p) ==
    LET i == LastIndex(p, "/") IN IF i = 0 THEN <<>> ELSE SubSeq(p, 1, i - 1)

\* a name can be bound at p: p is not empty and its directory exists
Bindable(f, p) == p # <<>> /\ (Parent(p) = <<>> \/ IsDir(f, Parent(p)))

Bind(f, p, v) == [q \in DOMAIN f \cup {p} |-> IF q = p THEN v ELSE f[q]]
Unbind(f, p) == [q \in DOMAIN f \ {p} |-> f[q]]

\* os.Create: truncates or creates a regular file
CanCreate(f, p) == Bindable(f, p) /\ ~IsDir(f, p)

\* os.Remove: unlinks a file (the error is dropped by the deferred call)
Remove(f, p) == IF IsFile(f, p) THEN Unbind(f, p) ELSE f

\* os.Rename of a regular file: replaces the target in one step
CanRename(f, old, new) == IsFile(f, old) /\ Bindable(f, new) /\ ~IsDir(f, new)
Rename(f, old, new) == Bind(Unbind(f, old), new, f[old])

AppendData(f, p, b) == [f EXCEPT ![p].data = Append(@, b)]

\* filepath.Clean, for paths without "." elements: repeated separators
\* collapse and a trailing separator goes
Clean(p) ==
    LET keep == {i \in 1..Len(p) : ~(p[i] = "/" /\ i > 1 /\ p[i - 1] = "/")}
        nth(k) == CHOOSE i \in keep : Cardinality({j \in keep : j <= i}) = k
        q == [k \in 1..Cardinality(keep) |-> p[nth(k)]]
    IN  IF Len(q) > 1 /\ q[Len(q)] = "/" THEN SubSeq(q, 1, Len(q) - 1) ELSE q

\* filepath.Join of two elements: empty elements are ignored
Join(a, b) ==
    IF a = <<>> THEN Clean(b)
    ELSE IF b = <<>> THEN Clean(a)
    ELSE Clean(a \o <<"/">> \o b)

TmpSuffix == <<"_", "t", "m", "p">>

tmpInPlace(lf) == lf

\* localFile + "_tmp"
tmpPath(lf) == lf \o TmpSuffix

(***************************************************************************)
(* The storage client facade.                                              *)
(***************************************************************************)
\* pointerOrNil: nil for the zero value of the type
pointerOrNil(v, zero) == IF v = zero THEN Nil ELSE <<v>>

Request(op, bucket, key, length, ctype, keys) ==
    [op |-> op, bucket |-> bucket, key |-> key, ContentLength |-> length,
     ContentType |-> ctype, keys |-> keys]

StsRequest == Request("GetCallerIdentity", Nil, Nil, Nil, Nil, <<>>)
ListBucketsRequest == Request("ListBuckets", Nil, Nil, Nil, Nil, <<>>)

ListObjectsRequest(bucket, keyPrefix) ==
    Request("ListObjectsV2", pointerOrNil(bucket, <<>>),
            pointerOrNil(keyPrefix, <<>>), Nil, Nil, <<>>)

GetObjectRequest(o) ==
    Request("GetObject", pointerOrNil(o.bucket, <<>>),
            pointerOrNil(o.key, <<>>), Nil, Nil, <<>>)

PresignRequest(o) ==
    Request("PresignGetObject", pointerOrNil(o.bucket, <<>>),
            pointerOrNil(o.key, <<>>), Nil, Nil, <<>>)

PutObjectRequest(o, length, ctype) ==
    Request("PutObject", pointerOrNil(o.bucket, <<>>),
            pointerOrNil(o.key, <<>>), pointerOrNil(length, 0),
            pointerOrNil(ctype, <<>>), <<>>)

\* the service accepts a request only with its required members present
Acceptable(r) ==
    CASE r.op \in {"GetObject", "PresignGetObject", "PutObject"}
             -> r.bucket # Nil /\ r.key # Nil
      [] r.op = "ListObjectsV2" -> r.bucket # Nil
      [] OTHER -> TRUE

(***************************************************************************)
(* run: the inputs.                                                        *)
(***************************************************************************)
WBK == <<"b", "/", "k">>
WBSlash == <<"b", "/">>
WB == <<"b">>
WD == <<"d">>
ContentTypeFlag ==
    <<"-", "-", "c", "o", "n", "t", "e", "n", "t", "-", "t", "y", "p", "e">>

ArgWords == {WBK, WBSlash, WB, WD, ContentTypeFlag}
ArgLists == UNION {[1..k -> ArgWords] : k \in 0..MaxArgs}

Commands ==
    {"help", "-h", "--help", "version", "--version", "whoami", "cat", "zcat",
     "get", "ls", "put", "public-url", "private-url", "foo"}

Bytes == {"z", "x"}
Bodies == UNION {[1..k -> Bytes] : k \in 0..MaxBody}

\* the working directory when run starts: a directory d, and regular files
\* (or nothing) at the other paths a command of ArgWords can name
RegularPaths == {WB, <<"k">>, <<"d", "/", "k">>}
StalePaths == {tmpPath(p) : p \in RegularPaths}
OldFiles == {<<>>, <<File(<<>>)>>, <<File(<<"o">>)>>}

FileSystem(old, stale) ==
    LET regular == IF old = <<>> THEN {} ELSE RegularPaths
        tmps == IF stale THEN StalePaths ELSE {}
    IN  [p \in {WD} \cup regular \cup tmps |->
            IF p = WD THEN Dir
            ELSE IF p \in regular THEN old[1] ELSE File(<<"t">>)]

FileSystems == {FileSystem(old, stale) : old \in OldFiles, stale \in BOOLEAN}

InitRun ==
    /\ pc = "run" /\ err = NoErr /\ calls = <<>>
    /\ IdleParse /\ IdleDel
    /\ cmd \in Commands /\ args \in ArgLists
    /\ fs \in IF cmd \in {"get", "put"} THEN FileSystems
              ELSE {FileSystem(<<>>, FALSE)}
    /\ fs0 = fs
    /\ body = <<>> /\ reader = <<>> /\ localFile = <<>> /\ obj = NoParse
    /\ events = <<>> /\ deferred = <<>> /\ stdout = <<>>

(***************************************************************************)
(* run: deferred calls and return.                                         *)
(***************************************************************************)
Deferred(fn, path) == [fn |-> fn, path |-> path]

Local == [fs |-> fs, events |-> events, reader |-> reader]
Ev(st, e) == [st EXCEPT !.events = Append(@, e)]

\* closes: drain the body, then close it
closes(st) == [Ev(st, "closes") EXCEPT !.reader = <<>>]

RunDeferred(d, st) ==
    CASE d.fn = "closes" -> closes(st)
      [] d.fn = "os.Remove" ->
            [Ev(st, "os.Remove") EXCEPT !.fs = Remove(@, d.path)]
      [] d.fn = "f.Close" -> Ev(st, "f.Close")

\* deferred calls run last in, first out
RunDefers(stack, st) ==
    LET n == Len(stack)
        after[i \in 0..n] ==
            IF i = 0 THEN st ELSE RunDeferred(stack[n - i + 1], after[i - 1])
    IN  after[n]

Return(e, stack, st) ==
    \E final \in {RunDefers(stack, st)} :
    /\ pc' = "done" /\ err' = e /\ deferred' = <<>>
    /\ fs' = final.fs /\ events' = final.events /\ reader' = final.reader

Const == UNCHANGED <<cmd, args, fs0, parseVars, delVars>>

needArgs(a, needs) ==
    IF Len(a) \in needs THEN NoErr ELSE "invalid arguments"

(***************************************************************************)
(* run: the commands.                                                      *)
(***************************************************************************)
LoadConfig ==
    /\ pc = "run"
    /\ \/ /\ pc' = "switch" /\ events' = Append(events, "config")
          /\ UNCHANGED <<err, deferred, fs, reader>>
       \/ Return("config error", deferred, Local)
    /\ UNCHANGED <<calls, body, localFile, obj, stdout>> /\ Const

Help ==
    /\ pc = "switch" /\ cmd \in {"help", "-h", "--help"}
    /\ stdout' = Append(stdout, "helpMessage")
    /\ Return(NoErr, deferred, Local)
    /\ UNCHANGED <<calls, body, localFile, obj>> /\ Const

Version ==
    /\ pc = "switch" /\ cmd \in {"version", "--version"}
    /\ stdout' = Append(stdout, "version")
    /\ Return(NoErr, deferred, Local)
    /\ UNCHANGED <<calls, body, localFile, obj>> /\ Const

Whoami ==
    /\ pc = "switch" /\ cmd = "whoami"
    /\ calls' = Append(calls, StsRequest)
    /\ \/ /\ stdout' = Append(stdout, "identity")
          /\ Return(NoErr, deferred, Local)
       \/ /\ stdout' = stdout
          /\ Return("GetCallerIdentity failed", deferred, Local)
    /\ UNCHANGED <<body, localFile, obj>> /\ Const

\* cat and zcat, up to the fetch
CatArgs ==
    /\ pc = "switch" /\ cmd \in {"cat", "zcat"}
    /\ IF needArgs(args, {1}) # NoErr
       THEN Return(needArgs(args, {1}), deferred, Local) /\ obj' = obj
       ELSE \E p \in {parseAsObject(args[1], TRUE)} :
            IF p.err # NoErr
            THEN Return(p.err, deferred, Local) /\ obj' = obj
            ELSE /\ obj' = p /\ pc' = "fetch"
                 /\ UNCHANGED <<err, deferred, fs, events, reader>>
    /\ UNCHANGED <<calls, body, localFile, stdout>> /\ Const

\* defer f.Close()
DeferClose(stack) == Append(stack, Deferred("f.Close", <<>>))

DeferRemoveForgotten(stack, path) == stack

\* defer os.Remove(localFile + "_tmp")
DeferRemove(stack, path) == Append(stack, Deferred("os.Remove", path))

\* get: the destination, computed from the key and the second argument
LocalFile(a, key, f) ==
    IF Len(a) = 1 THEN ReplaceAll(key)
    ELSE IF IsDir(f, a[2]) THEN Join(a[2], ReplaceAll(key))
    ELSE a[2]

\* get, up to the fetch: the temporary file is created
GetArgs ==
    /\ pc = "switch" /\ cmd = "get"
    /\ IF needArgs(args, {1, 2}) # NoErr
       THEN /\ Return(needArgs(args, {1, 2}), deferred, Local)
            /\ UNCHANGED <<obj, localFile>>
       ELSE \E p \in {parseAsObject(args[1], TRUE)} :
            IF p.err # NoErr
            THEN Return(p.err, deferred, Local) /\ UNCHANGED <<obj, localFile>>
            ELSE \E lf \in {LocalFile(args, p.key, fs)} :
                 /\ obj' = p /\ localFile' = lf
                 /\ \/ /\ CanCreate(fs, tmpPath(lf))
                       /\ fs' = Bind(fs, tmpPath(lf), File(<<>>))
                       /\ events' = Append(events, "os.Create")
                       /\ deferred' = DeferRemove(DeferClose(deferred),
                                                  tmpPath(lf))
                       /\ pc' = "fetch"
                       /\ UNCHANGED <<err, reader>>
                    \/ Return("create failed", deferred,
                              Ev(Local, "os.Create failed"))
    /\ UNCHANGED <<calls, body, stdout>> /\ Const

DeferClosesForgotten(stack) == stack

\* defer closes()
DeferCloses(stack) == Append(stack, Deferred("closes", <<>>))

\* Client.GetObject and the caller's error check
Fetch ==
    /\ pc = "fetch"
    /\ calls' = Append(calls, GetObjectRequest(obj))
    /\ \/ /\ Acceptable(GetObjectRequest(obj))
          /\ \E b \in Bodies : body' = b /\ reader' = b
          /\ events' = Append(events, "GetObject")
          /\ deferred' = DeferCloses(deferred)
          /\ pc' = IF cmd = "zcat" THEN "gzip" ELSE "copy"
          /\ UNCHANGED <<err, fs>>
       \/ /\ body' = body
          /\ Return("GetObject failed", deferred,
                    Ev(Local, "GetObject failed"))
    /\ UNCHANGED <<localFile, obj, stdout>> /\ Const

\* gzip.NewReader: reads the header, here the first byte of the stream
Gzip ==
    /\ pc = "gzip"
    /\ IF reader # <<>> /\ Head(reader) = "z"
       THEN /\ reader' = Tail(reader) /\ pc' = "copy"
            /\ events' = Append(events, "gzip.NewReader")
            /\ UNCHANGED <<err, deferred, fs>>
       ELSE Return("gzip: invalid header", deferred,
                   Ev(Local, "gzip.NewReader failed"))
    /\ UNCHANGED <<calls, body, localFile, obj, stdout>> /\ Const

Inflate(b) == IF b = "x" THEN "X" ELSE "Z"

\* io.Copy, one byte moved from the stream to the destination
CopyByte ==
    /\ pc = "copy" /\ reader # <<>>
    /\ reader' = Tail(reader)
    /\ IF cmd = "get"
       THEN /\ fs' = AppendData(fs, tmpPath(localFile), Head(reader))
            /\ stdout' = stdout
       ELSE /\ stdout' = Append(stdout, IF cmd = "zcat"
                                        THEN Inflate(Head(reader))
                                        ELSE Head(reader))
            /\ fs' = fs
    /\ events' = Append(events, "Write")
    /\ UNCHANGED <<pc, err, calls, body, localFile, obj, deferred>>
    /\ Const

\* io.Copy fails: the read or the write returned an error
CopyFail ==
    /\ pc = "copy"
    /\ Return("copy failed", deferred, Ev(Local, "io.Copy failed"))
    /\ UNCHANGED <<calls, body, localFile, obj, stdout>> /\ Const

\* io.Copy ends: the stream is at its end
CopyEOF ==
    /\ pc = "copy" /\ reader = <<>>
    /\ IF cmd = "get"
       THEN /\ pc' = "rename" /\ events' = Append(events, "io.Copy")
            /\ UNCHANGED <<err, deferred, fs, reader>>
       ELSE Return(NoErr, deferred, Ev(Local, "io.Copy"))
    /\ UNCHANGED <<calls, body, localFile, obj, stdout>> /\ Const

\* get: close the temporary file and rename it into place
GetRename ==
    /\ pc = "rename"
    /\ \E tmp \in {tmpPath(localFile)}, closed \in {Ev(Local, "f.Close")} :
       \/ /\ CanRename(fs, tmp, localFile)
          /\ Return(NoErr, deferred,
                    [Ev(closed, "os.Rename") EXCEPT
                        !.fs = Rename(@, tmp, localFile)])
       \/ Return("rename failed", deferred, Ev(closed, "os.Rename failed"))
    /\ UNCHANGED <<calls, body, localFile, obj, stdout>> /\ Const

ListsBucketsUpToOne(a) == Len(a) <= 1

\* ls without arguments lists the buckets
ListsBuckets(a) == Len(a) = 0

Ls ==
    /\ pc = "switch" /\ cmd = "ls"
    /\ IF needArgs(args, {0, 1}) # NoErr
       THEN /\ Return(needArgs(args, {0, 1}), deferred, Local)
            /\ UNCHANGED <<calls, obj, stdout>>
       ELSE IF ListsBuckets(args)
       THEN /\ calls' = Append(calls, ListBucketsRequest)
            /\ obj' = obj
            /\ \/ /\ stdout' = Append(stdout, "buckets")
                  /\ Return(NoErr, deferred, Local)
               \/ /\ stdout' = stdout
                  /\ Return("ListBuckets failed", deferred, Local)
       ELSE \E p \in {parseAsObject(args[1], FALSE)} :
            IF p.err # NoErr
            THEN Return(p.err, deferred, Local)
                 /\ UNCHANGED <<calls, obj, stdout>>
            ELSE \E req \in {ListObjectsRequest(p.bucket, p.key)} :
                 /\ calls' = Append(calls, req)
                 /\ obj' = p
                 /\ \/ /\ Acceptable(req)
                       /\ stdout' = Append(stdout, "objects")
                       /\ Return(NoErr, deferred, Local)
                    \/ /\ stdout' = stdout
                       /\ Return("ListObjectsV2 failed", deferred, Local)
    /\ UNCHANGED <<body, localFile>> /\ Const

\* put: the --content-type option, when it leads more than two arguments
HasContentType(a) == Len(a) > 2 /\ a[1] = ContentTypeFlag
ContentTypeOf(a) == IF HasContentType(a) THEN a[2] ELSE <<>>
PutArgs(a) == IF HasContentType(a) THEN SubSeq(a, 3, Len(a)) ELSE a

\* info.Size(): the length of a regular file; that of a directory is the
\* system's choice
Sizes(f, p) == IF f[p].dir THEN 0..MaxBody ELSE {Len(f[p].data)}

\* put, once the file is open: stat, resolve the address, upload
PutOpened(a, stack, st) ==
    \/ /\ Return("stat failed", stack, Ev(st, "f.Stat failed"))
       /\ UNCHANGED <<calls, obj>>
    \/ \E p \in {parseAsObject(a[2], TRUE)} :
       IF p.err # NoErr
       THEN Return(p.err, stack, Ev(st, "f.Stat")) /\ UNCHANGED <<calls, obj>>
       ELSE \E size \in Sizes(fs, a[1]) :
            \E req \in {PutObjectRequest(p, size, ContentTypeOf(args))} :
            /\ calls' = Append(calls, req)
            /\ obj' = p
            /\ \/ /\ Acceptable(req)
                  /\ Return(NoErr, stack, Ev(st, "f.Stat"))
               \/ Return("PutObject failed", stack, Ev(st, "f.Stat"))

Put ==
    /\ pc = "switch" /\ cmd = "put"
    /\ \E a \in {PutArgs(args)} :
       IF needArgs(a, {2}) # NoErr
       THEN Return(needArgs(a, {2}), deferred, Local)
            /\ UNCHANGED <<calls, obj>>
       ELSE \/ /\ Return("open failed", deferred, Ev(Local, "os.Open failed"))
               /\ UNCHANGED <<calls, obj>>
            \/ /\ Exists(fs, a[1])
               /\ PutOpened(a, DeferClose(deferred), Ev(Local, "os.Open"))
    /\ UNCHANGED <<body, localFile, stdout>> /\ Const

PublicUrl ==
    /\ pc = "switch" /\ cmd = "public-url"
    /\ IF needArgs(args, {1}) # NoErr
       THEN /\ Return(needArgs(args, {1}), deferred, Local)
            /\ UNCHANGED <<obj, stdout>>
       ELSE \E p \in {parseAsObject(args[1], TRUE)} :
            IF p.err # NoErr
            THEN Return(p.err, deferred, Local) /\ UNCHANGED <<obj, stdout>>
            ELSE /\ obj' = p
                 /\ stdout' = Append(stdout, <<"https://", p.bucket, ".s3-",
                                 "region", ".amazonaws.com/", p.key>>)
                 /\ Return(NoErr, deferred, Local)
    /\ UNCHANGED <<calls, body, localFile>> /\ Const

PrivateUrl ==
    /\ pc = "switch" /\ cmd = "private-url"
    /\ IF needArgs(args, {1}) # NoErr
       THEN /\ Return(needArgs(args, {1}), deferred, Local)
            /\ UNCHANGED <<calls, obj, stdout>>
       ELSE \E p \in {parseAsObject(args[1], TRUE)} :
            IF p.err # NoErr
            THEN Return(p.err, deferred, Local)
                 /\ UNCHANGED <<calls, obj, stdout>>
            ELSE /\ obj' = p
                 /\ calls' = Append(calls, PresignRequest(p))
                 /\ \/ /\ Acceptable(PresignRequest(p))
                       /\ stdout' = Append(stdout, "signed url")
                       /\ Return(NoErr, deferred, Local)
                    \/ /\ stdout' = stdout
                       /\ Return("PresignGetObject failed", deferred, Local)
    /\ UNCHANGED <<body, localFile>> /\ Const

KnownCommands == Commands \ {"foo"}

Unknown ==
    /\ pc = "switch" /\ cmd \notin KnownCommands
    /\ Return("unknown command: " \o cmd, deferred, Local)
    /\ UNCHANGED <<calls, body, localFile, obj, stdout>> /\ Const

NextRun ==
    \/ LoadConfig \/ Help \/ Version \/ Whoami
    \/ CatArgs \/ GetArgs \/ Fetch \/ Gzip
    \/ CopyByte \/ CopyFail \/ CopyEOF \/ GetRename
    \/ Ls \/ Put \/ PublicUrl \/ PrivateUrl \/ Unknown

SpecRun == InitRun /\ [][NextRun]_vars

(***************************************************************************)
(* Client.DeleteObjects                                                    *)
(***************************************************************************)
Object(b, k) == [bucket |-> b, key |-> k]

BatchObjects ==
    {Object(b, k) : b \in {<<"b">>, <<"c">>}, k \in {<<"k">>, <<"l">>}}
Batches == UNION {[1..n -> BatchObjects] : n \in 0..MaxBatch}

InitDelete ==
    /\ pc = "delete" /\ err = NoErr /\ calls = <<>>
    /\ IdleParse /\ IdleRun
    /\ objs \in Batches /\ idx = 0 /\ deleteObjects = <<>>

PrependIdentifier(list, o) == <<<<o.key>>>> \o list

\* append(deleteObjects, types.ObjectIdentifier{Key: aws.String(obj.Key)})
AppendIdentifier(list, o) == Append(list, <<o.key>>)

DeleteObjectsRequest(bucket, identifiers) ==
    Request("DeleteObjects", <<bucket>>, Nil, Nil, Nil, identifiers)

\* bucket := objs[0].Bucket, which panics on an empty batch
DeleteStart ==
    /\ pc = "delete"
    /\ IF objs = <<>>
       THEN pc' = "done" /\ err' = "panic: index out of range" /\ idx' = idx
       ELSE pc' = "loop" /\ idx' = 1 /\ err' = err
    /\ UNCHANGED <<calls, objs, deleteObjects, parseVars, runVars>>

\* one iteration of the loop over the batch
DeleteLoop ==
    /\ pc = "loop" /\ idx <= Len(objs)
    /\ IF objs[idx].bucket # objs[1].bucket
       THEN /\ pc' = "done"
            /\ err' = "cannot delete multiple bucket objects at once"
            /\ UNCHANGED <<idx, deleteObjects>>
       ELSE /\ deleteObjects' = AppendIdentifier(deleteObjects, objs[idx])
            /\ idx' = idx + 1
            /\ UNCHANGED <<pc, err>>
    /\ UNCHANGED <<calls, objs, parseVars, runVars>>

\* the request, after the loop
DeleteSend ==
    /\ pc = "loop" /\ idx > Len(objs)
    /\ calls' = Append(calls,
                       DeleteObjectsRequest(objs[1].bucket, deleteObjects))
    /\ err' \in {NoErr, "DeleteObjects failed"}
    /\ pc' = "done"
    /\ UNCHANGED <<objs, idx, deleteObjects, parseVars, runVars>>

NextDelete == DeleteStart \/ DeleteLoop \/ DeleteSend

SpecDelete == InitDelete /\ [][NextDelete]_vars

(***************************************************************************)
(* Properties of DeleteObjects, under SpecDelete.                          *)
(***************************************************************************)
MixedBuckets(os) == \E i \in 1..Len(os) : os[i].bucket # os[1].bucket

\* C9: a non-empty batch that spans buckets returns the error "cannot delete
\* multiple bucket objects at once" and no delete request is ever issued,
\* wherever the differing object sits; a batch of one bucket issues exactly
\* one delete request, for that bucket, carrying every key in batch order.
C9_MixedBatchNeverSent ==
    /\ Len(calls) <= 1
    /\ MixedBuckets(objs) => calls = <<>>
    /\ (pc = "done" /\ objs # <<>>) =>
          IF MixedBuckets(objs)
          THEN err = "cannot delete multiple bucket objects at once"
          ELSE /\ Len(calls) = 1
               /\ calls[1].op = "DeleteObjects"
               /\ calls[1].bucket = <<objs[1].bucket>>
               /\ calls[1].keys = [i \in 1..Len(objs) |-> <<objs[i].key>>]

C9_Witness ==
    /\ pc = "done" /\ Len(objs) = 3
    /\ objs[2].bucket = objs[1].bucket /\ objs[3].bucket # objs[1].bucket
    /\ objs[1].key # objs[2].key
    /\ err = "cannot delete multiple bucket objects at once"
    /\ Len(deleteObjects) = 2

(***************************************************************************)
(* Properties of run, under SpecRun.                                       *)
(***************************************************************************)
Has(seq, e) == \E i \in 1..Len(seq) : seq[i] = e
Count(seq, e) == Cardinality({i \in 1..Len(seq) : seq[i] = e})

\* C4: when the fetch fails, or the copy into the temporary file fails, get
\* returns an error, never renames, and leaves no <localFile>_tmp behind.
C4_GetAbortsWithoutRenameOrTmp ==
    (/\ pc = "done" /\ cmd = "get"
     /\ Has(events, "GetObject failed") \/ Has(events, "io.Copy failed"))
        => /\ err # NoErr
           /\ ~Has(events, "os.Rename") /\ ~Has(events, "os.Rename failed")
           /\ ~Exists(fs, tmpPath(localFile))

C4_Witness ==
    /\ pc = "done" /\ cmd = "get" /\ Len(args) = 2
    /\ Has(events, "Write") /\ Has(events, "io.Copy failed")
    /\ Count(events, "Write") < Len(body)
    /\ Exists(fs0, tmpPath(localFile))
    /\ Has(events, "os.Remove")

\* C5: in cat, zcat and get the release action (closes) runs exactly once
\* before the command ends whenever GetObject succeeded, on every exit path,
\* leaving the stream drained; it never runs when GetObject failed.
C5_ReleaseExactlyOnce ==
    /\ Count(events, "closes") <= 1
    /\ Has(events, "closes") => Has(events, "GetObject") /\ pc = "done"
    /\ (pc = "done" /\ Has(events, "GetObject"))
          => Count(events, "closes") = 1 /\ reader = <<>>
    /\ Has(events, "GetObject failed") => ~Has(events, "closes")

C5_Witness ==
    /\ pc = "done" /\ cmd = "get" /\ Has(events, "os.Rename failed")
    /\ body # <<>>
    /\ Count(events, "closes") = 1

\* C6: ls without arguments calls ListBuckets only, ls with one argument
\* calls ListObjects only, and no run of ls makes more than one listing call.
C6_LsMakesOneListingCall ==
    cmd = "ls" =>
        /\ Len(calls) <= 1
        /\ Len(args) = 0 => \A i \in 1..Len(calls) : calls[i].op = "ListBuckets"
        /\ Len(args) = 1 =>
              \A i \in 1..Len(calls) : calls[i].op = "ListObjectsV2"
        /\ Len(args) > 1 => calls = <<>>
        /\ (pc = "done" /\ err = NoErr) => Len(calls) = 1

C6_Witness ==
    /\ pc = "done" /\ cmd = "ls" /\ args = <<WBK>> /\ err = NoErr
    /\ calls = <<ListObjectsRequest(WB, <<"k">>)>>

\* the file and the address of a put whose arguments have the documented
\* shape: [--content-type TYPE] localFile bucket/key
PutShape(a) == Len(a) = 2 \/ (Len(a) = 4 /\ a[1] = ContentTypeFlag)
PutFile(a) == a[Len(a) - 1]
PutAddress(a) == a[Len(a)]

\* C7: put of a readable regular file of any size to bucket/key issues
\* exactly one upload request; its content length is present and equal to
\* the size of the file; its content type is the TYPE of --content-type,
\* and absent without the option.
C7_PutCarriesLengthAndType ==
    (/\ pc = "done" /\ cmd = "put" /\ PutShape(args)
     /\ Has(events, "f.Stat") /\ IsFile(fs0, PutFile(args))
     /\ PutAddress(args) = WBK)
        => /\ Len(calls) = 1
           /\ calls[1].op = "PutObject"
           /\ calls[1].ContentLength = <<Len(fs0[PutFile(args)].data)>>
           /\ calls[1].ContentType =
                 IF Len(args) = 4 THEN <<args[2]>> ELSE Nil

\* the argument counts the command line documents for each subcommand
ArgCountAllowed(c, a) ==
    CASE c \in {"help", "-h", "--help", "version", "--version", "whoami"}
             -> Len(a) = 0
      [] c \in {"cat", "zcat", "public-url", "private-url"} -> Len(a) = 1
      [] c = "get" -> Len(a) \in {1, 2}
      [] c = "ls" -> Len(a) \in {0, 1}
      [] c = "put" -> PutShape(a)

\* C8: for every subcommand, whoami, help and version included, a run whose
\* argument count is not an allowed one fails with "invalid arguments" and
\* makes no call to the storage or identity service.
C8_ArgCountMismatchFailsBeforeAnyCall ==
    (/\ pc = "done" /\ Has(events, "config")
     /\ cmd \in KnownCommands /\ ~ArgCountAllowed(cmd, args))
        => err = "invalid arguments" /\ calls = <<>>

\* C10: during get the destination holds what it held before the command
\* (or stays absent) until the final rename, and after the rename, which
\* only a successful run performs, it holds the complete object body.
C10_DestinationChangedOnlyByRename ==
    cmd = "get" =>
        /\ IF Has(events, "os.Rename")
           THEN /\ pc = "done" /\ err = NoErr
                /\ IsFile(fs, localFile) /\ fs[localFile].data = body
           ELSE /\ Exists(fs, localFile) = Exists(fs0, localFile)
                /\ Exists(fs, localFile) => fs[localFile] = fs0[localFile]
        /\ (pc = "done" /\ err = NoErr) => Has(events, "os.Rename")

C10_Witness ==
    /\ pc = "done" /\ cmd = "get" /\ Has(events, "os.Rename")
    /\ IsFile(fs0, localFile) /\ fs0[localFile].data = <<"o">>
    /\ Len(body) >= 2 /\ fs[localFile].data = body

====
